---------------------------- MODULE Spec2Model ----------------------------
(***************************************************************************)
(* A model of the two README-updating scripts of user3301/user3301:        *)
(*   scripts/source-and-update-photo.py   ("source" below)                 *)
(*   scripts/update_flickr_photo.py       ("update" below)                 *)
(*                                                                         *)
(* A Python string is a sequence of one-character strings, so that         *)
(* str.replace, re.sub, slicing, str.strip and the HTML parser are         *)
(* computed character by character.                                        *)
(***************************************************************************)
EXTENDS Integers, Sequences, FiniteSets, TLC

(***************************************************************************)
(* Characters and Python string primitives                                 *)
(***************************************************************************)

\* Python's str.strip() and the regex class \s, on the characters used here.
Whitespace == {" ", "\n", "\t"}

\* The regex class [a-zA-Z].
Letters ==
    {"a","b","c","d","e","f","g","h","i","j","k","l","m",
     "n","o","p","q","r","s","t","u","v","w","x","y","z",
     "A","B","C","D","E","F","G","H","I","J","K","L","M",
     "N","O","P","Q","R","S","T","U","V","W","X","Y","Z"}

Min(S) == CHOOSE x \in S : \A y \in S : x <= y

Max(S) == 0 - Min({0 - x : x \in S})

\* s[from-1:] in Python terms: the rest of s from the 1-based position from.
From(s, from) == SubSeq(s, from, Len(s))

\* Whether pat occurs in s at the 1-based position k (str.startswith(pat, k-1)).
StartsWithAt(s, pat, k) ==
    /\ k >= 1
    /\ k + Len(pat) - 1 <= Len(s)
    /\ \A j \in 1..Len(pat) : s[k + j - 1] = pat[j]

\* str.find(pat, from-1) + 1: the first position >= from where pat occurs,
\* 0 when there is none.
Find(s, pat, from) ==
    LET range == from..(Len(s) - Len(pat) + 1)
    IN  IF \E k \in range : StartsWithAt(s, pat, k)
        THEN CHOOSE k \in range :
                 /\ StartsWithAt(s, pat, k)
                 /\ \A j \in from..(k - 1) : ~StartsWithAt(s, pat, j)
        ELSE 0

\* pat in s
Contains(s, pat) == Find(s, pat, 1) # 0

\* str.replace with every occurrence replaced, left to right, non-overlapping.
RECURSIVE Replace(_, _, _)
Replace(s, old, new) ==
    LET k == Find(s, old, 1)
    IN  IF k = 0 THEN s
        ELSE SubSeq(s, 1, k - 1) \o new \o Replace(From(s, k + Len(old)), old, new)

\* str.strip(): leading and trailing whitespace removed.
Strip(s) ==
    LET keep == {k \in 1..Len(s) : s[k] \notin Whitespace}
    IN  IF keep = {} THEN <<>> ELSE SubSeq(s, Min(keep), Max(keep))

\* The first position >= from of s that holds no whitespace (Len(s)+1 when the
\* rest is whitespace): where a greedy \s* that starts at from ends.
AfterWs(s, from) ==
    LET stop == {k \in from..Len(s) : s[k] \notin Whitespace}
    IN  IF stop = {} THEN Len(s) + 1 ELSE Min(stop)

(***************************************************************************)
(* strip_html_tags: HTMLStripper(HTMLParser).feed(html), never closed      *)
(*                                                                         *)
(* HTMLParser.goahead(end=False) with convert_charrefs = True, on strings  *)
(* without quotes, '=', '#', '!' and '?' and without script/style          *)
(* elements: a tag runs from '<' + letter or '</' to the next '>', text    *)
(* between tags is passed to handle_data through html.unescape.            *)
(***************************************************************************)

\* html.entities.html5, the names that the strings used here can spell.
EntityNames ==
    { <<"l","t">>, <<"l","t",";">>, <<"g","t">>, <<"g","t",";">>,
      <<"a","m","p">>, <<"a","m","p",";">> }

EntityValue(name) ==
    IF name[1] = "l" THEN <<"<">>
    ELSE IF name[1] = "g" THEN <<">">>
    ELSE <<"&">>

\* html._replace_charref for a named reference s (the text after '&').
ReplaceCharref(s) ==
    IF s \in EntityNames THEN EntityValue(s)
    ELSE LET xs == {x \in 2..(Len(s) - 1) : SubSeq(s, 1, x) \in EntityNames}
         IN  IF xs = {} THEN <<"&">> \o s
             ELSE EntityValue(SubSeq(s, 1, Max(xs))) \o From(s, Max(xs) + 1)

\* The characters that end a named reference in html._charref:
\* &([^\t\n\f <&#;]{1,32};?)
CharrefStop == {"\t", "\n", "\f", " ", "<", "&", "#", ";"}

\* html.unescape(s): every match of html._charref replaced, left to right.
RECURSIVE Unescape(_)
Unescape(s) ==
    LET amp == Find(s, <<"&">>, 1)
    IN  IF amp = 0 THEN s
        ELSE LET stops == {k \in (amp + 1)..Len(s) : s[k] \in CharrefStop}
                 run   == IF stops = {} THEN Len(s) ELSE Min(stops) - 1
                 last  == IF run - amp > 32 THEN amp + 32 ELSE run
                 semi  == IF last + 1 <= Len(s) /\ s[last + 1] = ";"
                          THEN last + 1 ELSE last
             IN  IF last = amp
                 THEN SubSeq(s, 1, amp) \o Unescape(From(s, amp + 1))
                 ELSE SubSeq(s, 1, amp - 1)
                      \o ReplaceCharref(SubSeq(s, amp + 1, semi))
                      \o Unescape(From(s, semi + 1))

\* goahead's test before it passes trailing text on: an '&' among the last 34
\* characters with no whitespace or ';' after it may be a reference cut in
\* half, and the text is kept back for a later feed() or close().
HeldBack(raw, i) ==
    LET n    == Len(raw)
        lo   == IF n - 33 > i THEN n - 33 ELSE i
        amps == {k \in lo..n : raw[k] = "&"}
    IN  /\ amps # {}
        /\ \A k \in Max(amps)..n : raw[k] \notin (Whitespace \cup {";"})

\* HTMLParser.goahead(False) from position i, acc the data handled so far.
\* The result is the text handle_data has collected when feed() returns.
RECURSIVE GoAhead(_, _, _)
GoAhead(raw, i, acc) ==
    LET n == Len(raw)
        j == Find(raw, <<"<">>, i)
    IN  IF i > n THEN acc
        ELSE IF j = 0
        THEN IF HeldBack(raw, i) THEN acc
             ELSE acc \o Unescape(SubSeq(raw, i, n))
        ELSE LET acc1 == IF i < j THEN acc \o Unescape(SubSeq(raw, i, j - 1))
                         ELSE acc
                 gt   == Find(raw, <<">">>, j + 1)
             IN  IF j + 1 <= n /\ (raw[j + 1] \in Letters \/ raw[j + 1] = "/")
                 THEN \* parse_starttag / parse_endtag: -1 when no '>' follows
                      IF gt = 0 THEN acc1 ELSE GoAhead(raw, gt + 1, acc1)
                 ELSE IF j < n
                 THEN GoAhead(raw, j + 1, acc1 \o <<"<">>)
                 ELSE acc1

\* The parser's text without the final .strip().
strip_html_tags_unstripped(html) ==
    IF html = <<>> THEN <<>> ELSE GoAhead(html, 1, <<>>)

strip_html_tags(html) ==
    IF html = <<>> THEN <<>> ELSE Strip(GoAhead(html, 1, <<>>))

(***************************************************************************)
(* get_random_photo's description steps                                    *)
(***************************************************************************)

\* The literal of the pattern r"^.+?\s+posted a photo:\s*".
PostedAPhoto ==
    <<"p","o","s","t","e","d"," ","a"," ","p","h","o","t","o",":">>

\* The lengths k of a '.+?' that lets the pattern match: d[1..k] holds no
\* newline, whitespace follows, and the literal follows that whitespace.
PrefixCuts(d) ==
    {k \in 1..(Len(d) - 1) :
        /\ d[k + 1] \in Whitespace
        /\ StartsWithAt(d, PostedAPhoto, AfterWs(d, k + 1))
        /\ \A m \in 1..k : d[m] # "\n"}

\* The pattern without its trailing \s*.
RemovePrefixKeepWs(d) ==
    LET cuts == PrefixCuts(d)
    IN  IF cuts = {} THEN d
        ELSE From(d, AfterWs(d, Min(cuts) + 1) + Len(PostedAPhoto))

\* re.sub(r"^.+?\s+posted a photo:\s*", "", d): '^' matches at the start
\* only, '.+?' takes the fewest characters that allow a match.
RemovePrefix(d) ==
    LET cuts == PrefixCuts(d)
    IN  IF cuts = {} THEN d
        ELSE LET p == AfterWs(d, Min(cuts) + 1)
             IN  From(d, AfterWs(d, p + Len(PostedAPhoto)))

MaxDescription == 500

KeptOnTruncation == 497

Ellipsis == <<".", ".", ".">>

\* A truncation that also cuts a description of exactly the limit.
TruncateAtLimit(d) ==
    IF Len(d) >= MaxDescription
    THEN SubSeq(d, 1, KeptOnTruncation) \o Ellipsis
    ELSE d

\* if len(description) > 500: description = description[:497] + "..."
Truncate(d) ==
    IF Len(d) > MaxDescription
    THEN SubSeq(d, 1, KeptOnTruncation) \o Ellipsis
    ELSE d

SmallMarker == <<"_", "m", ".", "j", "p", "g">>

LargeMarker == <<"_", "b", ".", "j", "p", "g">>

\* A replace(..., 1): only the first occurrence.
UpsizeFirst(image_url) ==
    LET k == Find(image_url, SmallMarker, 1)
    IN  IF k = 0 THEN image_url
        ELSE SubSeq(image_url, 1, k - 1) \o LargeMarker
             \o From(image_url, k + Len(SmallMarker))

\* image_url.replace("_m.jpg", "_b.jpg")
Upsize(image_url) == Replace(image_url, SmallMarker, LargeMarker)


(***************************************************************************)
(* Python values: None / a value, dict.get, exceptions                     *)
(***************************************************************************)

\* None, an absent dict key or an unset environment variable.
None == [none |-> TRUE]

\* A value that is present.
Some(v) == [some |-> v]

IsNone(opt) == "none" \in DOMAIN opt

\* dict.get(key, default) for a key held as None / Some(value).
Get(opt, default) == IF IsNone(opt) THEN default ELSE opt.some

\* A call that returned v, and a call that raised the exception class e.
Return(v) == [raised |-> "no", value |-> v]

Raise(e) == [raised |-> e, value |-> None]

\* The exception classes a run can meet. All derive from Exception;
\* requests' own (ConnectionError, Timeout, HTTPError, JSONDecodeError) derive
\* from requests.RequestException, FileNotFoundError and PermissionError from
\* OSError, UnicodeDecodeError from ValueError.
RequestsErrors == {"ConnectionError", "Timeout", "HTTPError", "JSONDecodeError"}

FileErrors == {"FileNotFoundError", "PermissionError", "UnicodeDecodeError"}

Exceptions == RequestsErrors \cup FileErrors \cup {"AttributeError"}

\* except <handler>: whether the clause catches an exception of class e.
Catches(handler, e) ==
    CASE handler = "Exception"         -> e \in Exceptions
      [] handler = "RequestException"  -> e \in RequestsErrors
      [] handler = "FileNotFoundError" -> e = "FileNotFoundError"
      [] OTHER                         -> FALSE

(***************************************************************************)
(* fetch_flickr_photos / fetch_specific_flickr_photo                       *)
(***************************************************************************)

\* requests.get(url, timeout=10); raise_for_status(); response.json(): what
\* the try block of either fetch function yields for an outcome of the GET.
\* An outcome is [error |-> class] when the transport fails, else
\* [status |-> code, body |-> b] with b one of
\*   [json |-> "invalid"]           not JSON
\*   [json |-> "array"]             JSON, but a list and not an object
\*   [json |-> "object", keys |-> d] a JSON object d
GetJson(outcome) ==
    IF "error" \in DOMAIN outcome THEN Raise(outcome.error)
    ELSE IF outcome.status >= 400 THEN Raise("HTTPError")
    ELSE IF outcome.body.json = "invalid" THEN Raise("JSONDecodeError")
    ELSE Return(outcome.body)

\* data.get(...) on the parsed body: a list has no get().
FeedItems(data) ==
    IF data.json # "object" THEN Raise("AttributeError")
    ELSE Return(Get(data.keys.items, <<>>))

\* fetch_flickr_photos (the same in both scripts): try: ... except Exception:
\* print(...); return []
FetchHandlerRequestsOnly == "RequestException"

FetchHandler == "Exception"

fetch_flickr_photos(outcome) ==
    LET got  == GetJson(outcome)
        body == IF got.raised # "no" THEN got ELSE FeedItems(got.value)
    IN  IF body.raised = "no" THEN body
        ELSE IF Catches(FetchHandler, body.raised) THEN Return(<<>>)
        ELSE body

FlickrPhoto == <<"F","l","i","c","k","r"," ","P","h","o","t","o">>

\* f"https://www.flickr.com/photos/{user_id}/{photo_id}"
PhotoUrl(user_id, photo_id) ==
    <<"https://www.flickr.com/photos/">> \o user_id \o <<"/">> \o photo_id

\* fetch_specific_flickr_photo: the oEmbed GET; None on any exception.
fetch_specific_flickr_photo(user_id, photo_id, outcome) ==
    LET got  == GetJson(outcome)
        body == IF got.raised # "no" THEN got
                ELSE IF got.value.json # "object" THEN Raise("AttributeError")
                ELSE LET data      == got.value.keys
                         image_url == Get(data.url, <<>>)
                     IN  Return(Some(
                           [url         |-> IF image_url # <<>>
                                            THEN Replace(image_url, LargeMarker, LargeMarker)
                                            ELSE image_url,
                            title       |-> Get(data.title, FlickrPhoto),
                            link        |-> PhotoUrl(user_id, photo_id),
                            description |-> <<>>,
                            author_name |-> Get(data.author_name, <<>>)]))
    IN  IF body.raised = "no" THEN body
        ELSE IF Catches("Exception", body.raised) THEN Return(None)
        ELSE body

(***************************************************************************)
(* get_random_photo                                                        *)
(***************************************************************************)

\* photo.get("media", {}).get("m", ""), upsized when not empty.
ImageUrl(photo) ==
    LET image_url == IF IsNone(photo.media) THEN <<>>
                     ELSE Get(photo.media.some.m, <<>>)
    IN  IF image_url # <<>> THEN Upsize(image_url) ELSE image_url

\* The two cleaning steps in the other order.
CleanDescriptionPrefixFirst(description_html) ==
    strip_html_tags(RemovePrefix(description_html))

\* The description steps of source-and-update-photo.py, in the code's order.
CleanDescription(description_html) ==
    RemovePrefix(strip_html_tags(description_html))

Description(description_html) == Truncate(CleanDescription(description_html))

\* source-and-update-photo.py: photo is random.choice(photos), here
\* photos[choice].
get_random_photo_source(photos, choice) ==
    IF photos = <<>> THEN None
    ELSE LET photo == photos[choice]
         IN  Some([url         |-> ImageUrl(photo),
                   title       |-> Get(photo.title, FlickrPhoto),
                   link        |-> Get(photo.link, <<>>),
                   published   |-> Get(photo.published, <<>>),
                   description |-> Description(Get(photo.description, <<>>))])

\* update_flickr_photo.py: no description.
get_random_photo_update(photos, choice) ==
    IF photos = <<>> THEN None
    ELSE LET photo == photos[choice]
         IN  Some([url       |-> ImageUrl(photo),
                   title     |-> Get(photo.title, FlickrPhoto),
                   link      |-> Get(photo.link, <<>>),
                   published |-> Get(photo.published, <<>>)])

(***************************************************************************)
(* update_readme                                                           *)
(*                                                                         *)
(* README.md is [access, content]. access says what the file system does  *)
(* with the script's two open() calls:                                     *)
(*   "missing"      no such file                                           *)
(*   "unreadable"   open(.., "r") is refused (PermissionError)             *)
(*   "undecodable"  f.read() meets bytes that are not UTF-8                *)
(*   "readonly"     reading works, open(.., "w") is refused                *)
(*   "ok"           both work                                              *)
(* The fixed lines of the templates are single elements of the text; the   *)
(* interpolated fields and the punctuation around them are characters.     *)
(***************************************************************************)

\* with open(readme_path, "r", encoding="utf-8") as f: content = f.read()
ReadFile(readme) ==
    CASE readme.access = "missing"     -> Raise("FileNotFoundError")
      [] readme.access = "unreadable"  -> Raise("PermissionError")
      [] readme.access = "undecodable" -> Raise("UnicodeDecodeError")
      [] OTHER                         -> Return(readme.content)

\* The file opened with mode "a": the text lands after the old contents.
WriteFileAppend(readme, text) ==
    IF readme.access = "ok"
    THEN Return([readme EXCEPT !.content = readme.content \o text])
    ELSE Raise("PermissionError")

\* with open(readme_path, "w", encoding="utf-8") as f: f.write(text):
\* mode "w" truncates, the file holds text and nothing else.
WriteFile(readme, text) ==
    IF readme.access = "ok"
    THEN Return([readme EXCEPT !.content = text])
    ELSE Raise("PermissionError")

NL == <<"\n">>

\* [![title](url)](link)
ImageLink(photo_info) ==
    <<"[", "!", "[">> \o photo_info.title \o <<"]", "(">> \o photo_info.url
        \o <<")", "]", "(">> \o photo_info.link \o <<")">>

\* [title](link)
Caption(photo_info) ==
    <<"[">> \o photo_info.title \o <<"]", "(">> \o photo_info.link \o <<")">>

Trailer ==
    <<"---">> \o NL \o NL
        \o <<"<!-- <img src=(stat.svg) alt=\"My Activity Stats\" /> -->">> \o NL

\* description_section of source-and-update-photo.py
DescriptionSection(photo_info) ==
    IF photo_info.description # <<>>
    THEN NL \o <<">", " ">> \o photo_info.description \o NL
    ELSE <<>>

\* photo_section of source-and-update-photo.py
photo_section_source(photo_info) ==
    <<"# I am user3301">> \o NL \o NL
        \o <<"## (a daily shuffle from my lens to your screen)">> \o NL \o NL
        \o <<"![Powered by GitHub Actions](badge)">> \o NL \o NL
        \o ImageLink(photo_info) \o NL \o NL
        \o <<"*", "*">> \o Caption(photo_info) \o <<"*", "*">> \o NL
        \o DescriptionSection(photo_info) \o NL \o NL
        \o Trailer

\* photo_section of update_flickr_photo.py
photo_section_update(photo_info) ==
    <<"# I am user3301">> \o NL \o NL
        \o <<"![](header.png)">> \o NL \o NL
        \o <<"## My Photo of the Day">> \o NL \o NL
        \o ImageLink(photo_info) \o NL \o NL
        \o <<"*">> \o Caption(photo_info)
        \o <<" - Click to view on Flickr", "*">> \o NL \o NL
        \o Trailer

photo_section(script, photo_info) ==
    IF script = "source" THEN photo_section_source(photo_info)
    ELSE photo_section_update(photo_info)

\* except FileNotFoundError: print(...); return False
ReadHandler == "FileNotFoundError"

\* update_readme of either script: [raised, value, readme, fileops], value
\* the function's result and readme the file as the call leaves it.
update_readme(script, photo_info, readme) ==
    LET read == ReadFile(readme)
    IN  IF read.raised # "no"
        THEN IF Catches(ReadHandler, read.raised)
             THEN [raised |-> "no", value |-> FALSE, readme |-> readme,
                   fileops |-> <<"read">>]
             ELSE [raised |-> read.raised, value |-> FALSE, readme |-> readme,
                   fileops |-> <<"read">>]
        ELSE LET written == WriteFile(readme, photo_section(script, photo_info))
             IN  IF written.raised # "no"
                 THEN [raised |-> written.raised, value |-> FALSE,
                       readme |-> readme, fileops |-> <<"read", "write">>]
                 ELSE [raised |-> "no", value |-> TRUE,
                       readme |-> written.value, fileops |-> <<"read", "write">>]

(***************************************************************************)
(* main                                                                    *)
(*                                                                         *)
(* A run of main is [net, photos, photo_info, updated, raised, readme,     *)
(* fileops]: the GETs issued, what the feed fetch returned, the photo      *)
(* handed to update_readme (None when there is none), what update_readme   *)
(* did, the exception that left main ("no" when it returned), the file     *)
(* after the run and the file accesses made.  outcome is what the network  *)
(* answers to the run's GET, choice the draw of random.choice.             *)
(***************************************************************************)

NoUpdate(net, photos, photo_info, readme) ==
    [net |-> net, photos |-> photos, photo_info |-> photo_info,
     updated |-> "not called", raised |-> "no", readme |-> readme,
     fileops |-> <<>>]

Failed(net, e, readme) ==
    [net |-> net, photos |-> <<>>, photo_info |-> None,
     updated |-> "not called", raised |-> e, readme |-> readme,
     fileops |-> <<>>]

\* if photo_info and photo_info["url"]: update_readme(photo_info)
\* else: print("Could not ...")
UpdateIfUrl(script, net, photos, photo_info, readme) ==
    IF IsNone(photo_info) \/ photo_info.some.url = <<>>
    THEN NoUpdate(net, photos, photo_info, readme)
    ELSE LET done == update_readme(script, photo_info.some, readme)
         IN  [net |-> net, photos |-> photos, photo_info |-> photo_info,
              updated |-> IF done.raised # "no" THEN "raised"
                          ELSE IF done.value THEN "True" ELSE "False",
              raised |-> done.raised, readme |-> done.readme,
              fileops |-> done.fileops]

\* A random-selection path that falls back to a placeholder photo when the
\* feed is empty.
RandomPathPlaceholder(script, outcome, choice, readme) ==
    LET fetched == fetch_flickr_photos(outcome)
        photos  == fetched.value
    IN  IF fetched.raised # "no" THEN Failed(<<"feed">>, fetched.raised, readme)
        ELSE UpdateIfUrl(script, <<"feed">>, photos,
                         IF photos = <<>>
                         THEN Some([url |-> <<"p">>, title |-> FlickrPhoto,
                                    link |-> <<>>, description |-> <<>>])
                         ELSE IF script = "source"
                         THEN get_random_photo_source(photos, choice)
                         ELSE get_random_photo_update(photos, choice),
                         readme)

\* The random-selection path, shared by both scripts' main.
RandomPath(script, outcome, choice, readme) ==
    LET fetched == fetch_flickr_photos(outcome)
        photos  == fetched.value
    IN  IF fetched.raised # "no" THEN Failed(<<"feed">>, fetched.raised, readme)
        ELSE IF photos = <<>> THEN NoUpdate(<<"feed">>, photos, None, readme)
        ELSE UpdateIfUrl(script, <<"feed">>, photos,
                         IF script = "source"
                         THEN get_random_photo_source(photos, choice)
                         ELSE get_random_photo_update(photos, choice),
                         readme)

\* A main that looks at FLICKR_IMAGE_ID before FLICKR_USER_ID.
main_source_ImageFirst(environ, outcome, choice, readme) ==
    LET user_id  == Get(environ.FLICKR_USER_ID, <<>>)
        image_id == Get(environ.FLICKR_IMAGE_ID, <<>>)
    IN  IF image_id # <<>>
        THEN LET fetched == fetch_specific_flickr_photo(user_id, image_id, outcome)
             IN  IF fetched.raised # "no"
                 THEN Failed(<<"oembed">>, fetched.raised, readme)
                 ELSE UpdateIfUrl("source", <<"oembed">>, <<>>, fetched.value, readme)
        ELSE IF user_id = <<>> THEN NoUpdate(<<>>, <<>>, None, readme)
        ELSE RandomPath("source", outcome, choice, readme)

\* main of source-and-update-photo.py
main_source(environ, outcome, choice, readme) ==
    LET user_id  == Get(environ.FLICKR_USER_ID, <<>>)
        image_id == Get(environ.FLICKR_IMAGE_ID, <<>>)
    IN  IF user_id = <<>> THEN NoUpdate(<<>>, <<>>, None, readme)
        ELSE IF image_id # <<>>
        THEN LET fetched == fetch_specific_flickr_photo(user_id, image_id, outcome)
             IN  IF fetched.raised # "no"
                 THEN Failed(<<"oembed">>, fetched.raised, readme)
                 ELSE UpdateIfUrl("source", <<"oembed">>, <<>>, fetched.value, readme)
        ELSE RandomPath("source", outcome, choice, readme)

\* main of update_flickr_photo.py
main_update(environ, outcome, choice, readme) ==
    LET user_id == Get(environ.FLICKR_USER_ID, <<>>)
    IN  IF user_id = <<>> THEN NoUpdate(<<>>, <<>>, None, readme)
        ELSE RandomPath("update", outcome, choice, readme)

(***************************************************************************)
(* Inputs                                                                  *)
(***************************************************************************)

\* The longest feed (in items), the most pieces in a generated string, the
\* most characters beyond the limit in a generated description, the longest
\* run of other records before and after a generated record.
MaxItems == 2

MaxPieces == 3

MaxOver == 2

MaxFill == 1

\* All sequences of at most n elements of S.
RECURSIVE SeqsUpTo(_, _)
SeqsUpTo(S, n) ==
    IF n = 0 THEN {<<>>}
    ELSE LET shorter == SeqsUpTo(S, n - 1)
         IN  shorter \cup {Append(s, e) : s \in shorter, e \in S}

\* The concatenation of a sequence of strings.
RECURSIVE Concat(_)
Concat(ss) == IF ss = <<>> THEN <<>> ELSE Head(ss) \o Concat(Tail(ss))

\* Every string made of at most n of the given pieces.
Strings(pieces, n) == {Concat(ss) : ss \in SeqsUpTo(pieces, n)}

\* n characters of filler text: xyzxyz...
Pad(n) == [i \in 1..n |-> <<"x", "y", "z">>[(i % 3) + 1]]

Item(m, title, link, description) ==
    [media       |-> IF IsNone(m) THEN None ELSE Some([m |-> m]),
     title       |-> title,
     link        |-> link,
     published   |-> None,
     description |-> description]

\* {media:{m:"a_m.jpg"}, title:"T", link:"L",
\*  description:"Jane posted a photo: <b>Nice!</b>"}
JaneItem ==
    Item(Some(<<"a", "_", "m", ".", "j", "p", "g">>), Some(<<"T">>), Some(<<"L">>),
         Some(<<"J", "a", "n", "e", " ">> \o PostedAPhoto
              \o <<" ", "<", "b", ">", "N", "i", "c", "e", "!", "<", "/", "b", ">">>))

\* An item without media: its image URL is empty.
NoMediaItem == Item(None, Some(<<"U">>), Some(<<"M">>), Some(<<"h", "i">>))

\* An item with a URL without the marker and nothing else.
BareItem == Item(Some(<<"c", ".", "p", "n", "g">>), None, None, None)

\* An item whose boilerplate prefix shows only once the markup is stripped
\* and whose text is one character over the limit.
LongItem ==
    Item(Some(<<"d", "_", "m", ".", "j", "p", "g">>), Some(<<"V">>), Some(<<"N">>),
         Some(<<"J", " ", "p", "o", "s", "t", "e", "d", "<", "i", ">", "<", "/", "i", ">",
                " ", "a", " ", "p", "h", "o", "t", "o", ":", " ", "<", "b", ">">>
              \o Pad(MaxDescription + 1)))

FeedRecords == <<JaneItem, NoMediaItem, BareItem, LongItem>>

\* The feeds: at most MaxItems distinct records, in the order of FeedRecords.
Feeds ==
    {[i \in 1..Len(idx) |-> FeedRecords[idx[i]]] :
        idx \in {s \in SeqsUpTo(1..Len(FeedRecords), MaxItems) :
                    \A i \in 1..(Len(s) - 1) : s[i] < s[i + 1]}}

\* A JSON object with the keys either endpoint's reader looks at.
JsonObject(items, url, title) ==
    [json |-> "object",
     keys |-> [items |-> items, url |-> url, title |-> title, author_name |-> None]]

FeedBodies == {JsonObject(Some(f), None, None) : f \in Feeds}

EmbedBodies ==
    {JsonObject(None, url, title) :
        url   \in {None, Some(<<>>), Some(<<"p", "_", "b", ".", "j", "p", "g">>)},
        title \in {None, Some(<<"W">>)}}

Bodies ==
    {[json |-> "invalid"], [json |-> "array"]} \cup FeedBodies \cup EmbedBodies

\* What a GET can come to: no response, or a status and a body.  requests
\* follows redirects, so a final 3xx is one without a usable Location
\* (300, 304, ...).
TransportFailures == {[error |-> e] : e \in {"ConnectionError", "Timeout"}}

Statuses == {200, 300, 304, 404, 503}

Outcomes ==
    TransportFailures \cup {[status |-> s, body |-> b] : s \in Statuses, b \in Bodies}

\* The outcomes the runs of main are given: every body with status 200, one
\* refusal, one unfollowed redirect with a feed in its body.
RunOutcomes ==
    {o \in Outcomes :
        \/ "error" \in DOMAIN o /\ o.error = "Timeout"
        \/ "status" \in DOMAIN o /\ o.status = 200
        \/ "status" \in DOMAIN o /\ o.status = 404 /\ o.body.json = "invalid"
        \/ "status" \in DOMAIN o /\ o.status = 300
              /\ o.body = JsonObject(Some(<<JaneItem>>), None, None)}

Environs ==
    {[FLICKR_USER_ID |-> u, FLICKR_IMAGE_ID |-> i] :
        u \in {None, Some(<<>>), Some(<<"u">>)},
        i \in {None, Some(<<>>), Some(<<"7">>)}}

Accesses == {"missing", "unreadable", "undecodable", "readonly", "ok"}

InitialContent == <<"# old README">> \o NL

\* The pieces of the generated strings.
HtmlPieces ==
    { <<"<", "b", ">">>, <<"<", "/", "b", ">">>, <<"&", "l", "t", ";">>,
      <<"&", "g", "t", ";">>, <<"b">>, <<" ">>, <<"<">>, <<"&">>, <<">">> }

PrefixPieces ==
    { <<"J">>, <<" ">>, <<"\n">>, <<"x">>, PostedAPhoto,
      <<"J", " ">> \o PostedAPhoto \o <<" ">> }

UrlPieces ==
    { <<"a">>, SmallMarker, LargeMarker, <<"_", "m">>, <<".", "j", "p", "g">> }

\* Descriptions around the limit: a head, then 0..MaxOver characters or from
\* three under the limit to MaxOver over it.
DescriptionHeads ==
    { <<>>, <<"J", " ">> \o PostedAPhoto \o <<" ">>, <<"<", "b", ">">> }

Descriptions ==
    {h \o Pad(n) : h \in DescriptionHeads,
                   n \in (0..MaxOver) \cup
                         ((MaxDescription - 3)..(MaxDescription + MaxOver))}

\* The records get_random_photo is tried on, and the lists that hold one of
\* them among at most MaxFill other records on either side.
TriedRecords ==
    {Item(Some(u), None, None, None) : u \in Strings(UrlPieces, MaxPieces)}
        \cup {Item(Some(<<"e", "_", "m", ".", "j", "p", "g">>), None, None, Some(d)) :
                 d \in Descriptions}

Fillers == SeqsUpTo({NoMediaItem, JaneItem}, MaxFill)

PhotoLists ==
    {<<>>} \cup {pre \o <<r>> \o post :
                    pre \in Fillers, r \in TriedRecords, post \in Fillers}

(***************************************************************************)
(* State                                                                   *)
(***************************************************************************)

VARIABLES
    readme,      \* README.md: [access, content]
    script,      \* the script of the last run ("none" before the first)
    environ,     \* the environment of the last run
    net,         \* the GETs the last run (or call) issued
    photos,      \* the list fetch_flickr_photos returned / get_random_photo got
    photo,       \* the record random.choice drew, None when it drew none
    photo_info,  \* the normalized photo of the last run, None when none
    fileops,     \* the accesses to README.md of the last run
    updated,     \* what update_readme did: "not called", "True", "False", "raised"
    raised,      \* the exception that left main or the call, "no" when none
    lastWrite,   \* [script, photo_info] of the last run that wrote README.md
    outcome,     \* the outcome of the GET given to a lone fetch_flickr_photos
    fn_in,       \* the argument of a lone string function
    fn_out,      \* its result, None before the call
    fn_again     \* the result of applying it to fn_out, None before the call

vars ==
    <<readme, script, environ, net, photos, photo, photo_info, fileops, updated,
      raised, lastWrite, outcome, fn_in, fn_out, fn_again>>

runVars ==
    <<script, environ, net, photos, photo, photo_info, fileops, updated, raised,
      lastWrite>>

\* Nothing has run.
Idle ==
    /\ script = "none"
    /\ environ = None
    /\ net = <<>>
    /\ photos = <<>>
    /\ photo = None
    /\ photo_info = None
    /\ fileops = <<>>
    /\ updated = "not called"
    /\ raised = "no"
    /\ lastWrite = None
    /\ outcome = None
    /\ fn_in = <<>>
    /\ fn_out = None
    /\ fn_again = None

(***************************************************************************)
(* The runs of the two scripts on one README.md                            *)
(***************************************************************************)

Init ==
    /\ readme \in {[access |-> a,
                    content |-> IF a = "missing" THEN <<>> ELSE InitialContent] :
                      a \in Accesses}
    /\ Idle

\* One run of a script's main, from the environment and network it meets.
Run(name, run, e, choice) ==
    /\ readme' = run.readme
    /\ script' = name
    /\ environ' = Some(e)
    /\ net' = run.net
    /\ photos' = run.photos
    /\ photo' = IF run.photos = <<>> THEN None ELSE Some(run.photos[choice])
    /\ photo_info' = run.photo_info
    /\ fileops' = run.fileops
    /\ updated' = run.updated
    /\ raised' = run.raised
    /\ lastWrite' = IF run.updated = "True"
                    THEN Some([script |-> name, photo_info |-> run.photo_info.some])
                    ELSE lastWrite
    /\ UNCHANGED <<outcome, fn_in, fn_out, fn_again>>

\* The draws random.choice can make on the feed an outcome yields (1 stands
\* for the draw of a run that never calls it).
Draws(o) ==
    LET fetched == fetch_flickr_photos(o)
    IN  IF fetched.raised # "no" \/ fetched.value = <<>> THEN {1}
        ELSE 1..Len(fetched.value)

MainSource ==
    \E e \in Environs, o \in RunOutcomes : \E choice \in Draws(o) :
        \E run \in {main_source(e, o, choice, readme)} : Run("source", run, e, choice)

MainUpdate ==
    \E e \in Environs, o \in RunOutcomes : \E choice \in Draws(o) :
        \E run \in {main_update(e, o, choice, readme)} : Run("update", run, e, choice)

Next == MainSource \/ MainUpdate

Spec == Init /\ [][Next]_vars

(***************************************************************************)
(* fetch_flickr_photos alone, on every outcome of its GET                  *)
(***************************************************************************)

InitFetch ==
    /\ readme = [access |-> "ok", content |-> InitialContent]
    /\ script = "none"
    /\ environ = None
    /\ net = <<>>
    /\ photos = <<>>
    /\ photo = None
    /\ photo_info = None
    /\ fileops = <<>>
    /\ updated = "not called"
    /\ raised = "no"
    /\ lastWrite = None
    /\ outcome \in {Some(o) : o \in Outcomes}
    /\ fn_in = <<>>
    /\ fn_out = None
    /\ fn_again = None

\* photos = fetch_flickr_photos(user_id)
FetchPhotos ==
    /\ net = <<>>
    /\ LET fetched == fetch_flickr_photos(outcome.some)
       IN  /\ net' = <<"feed">>
           /\ raised' = fetched.raised
           /\ photos' = IF fetched.raised = "no" THEN fetched.value ELSE <<>>
    /\ UNCHANGED <<readme, script, environ, photo, photo_info, fileops, updated,
                   lastWrite, outcome, fn_in, fn_out, fn_again>>

NextFetch == FetchPhotos

SpecFetch == InitFetch /\ [][NextFetch]_vars

(***************************************************************************)
(* get_random_photo alone, on generated lists                              *)
(***************************************************************************)

InitPhoto ==
    /\ readme = [access |-> "ok", content |-> InitialContent]
    /\ script = "none"
    /\ environ = None
    /\ net = <<>>
    /\ photos \in PhotoLists
    /\ photo = None
    /\ photo_info = None
    /\ fileops = <<>>
    /\ updated = "not called"
    /\ raised = "no"
    /\ lastWrite = None
    /\ outcome = None
    /\ fn_in = <<>>
    /\ fn_out = None
    /\ fn_again = None

\* random.choice draws any position of a list that is not empty.
Positions(list) == IF list = <<>> THEN {1} ELSE 1..Len(list)

GetRandomPhotoSource ==
    /\ \E choice \in Positions(photos) :
        /\ photo' = IF photos = <<>> THEN None ELSE Some(photos[choice])
        /\ photo_info' = get_random_photo_source(photos, choice)
    /\ script' = "source"
    /\ UNCHANGED <<readme, environ, net, photos, fileops, updated, raised,
                   lastWrite, outcome, fn_in, fn_out, fn_again>>

GetRandomPhotoUpdate ==
    /\ \E choice \in Positions(photos) :
        /\ photo' = IF photos = <<>> THEN None ELSE Some(photos[choice])
        /\ photo_info' = get_random_photo_update(photos, choice)
    /\ script' = "update"
    /\ UNCHANGED <<readme, environ, net, photos, fileops, updated, raised,
                   lastWrite, outcome, fn_in, fn_out, fn_again>>

NextPhoto == GetRandomPhotoSource \/ GetRandomPhotoUpdate

SpecPhoto == InitPhoto /\ [][NextPhoto]_vars

(***************************************************************************)
(* strip_html_tags and the prefix removal alone, applied once and again    *)
(***************************************************************************)

InitFn(inputs) ==
    /\ readme = [access |-> "ok", content |-> InitialContent]
    /\ script = "none"
    /\ environ = None
    /\ net = <<>>
    /\ photos = <<>>
    /\ photo = None
    /\ photo_info = None
    /\ fileops = <<>>
    /\ updated = "not called"
    /\ raised = "no"
    /\ lastWrite = None
    /\ outcome = None
    /\ fn_in \in inputs
    /\ fn_out = None
    /\ fn_again = None

InitStrip == InitFn(Strings(HtmlPieces, MaxPieces))

StripOnce ==
    /\ IsNone(fn_out)
    /\ fn_out' = Some(strip_html_tags(fn_in))
    /\ UNCHANGED <<readme, runVars, outcome, fn_in, fn_again>>

StripAgain ==
    /\ ~IsNone(fn_out)
    /\ IsNone(fn_again)
    /\ fn_again' = Some(strip_html_tags(fn_out.some))
    /\ UNCHANGED <<readme, runVars, outcome, fn_in, fn_out>>

NextStrip == StripOnce \/ StripAgain

SpecStrip == InitStrip /\ [][NextStrip]_vars

InitPrefix == InitFn(Strings(PrefixPieces, MaxPieces))

PrefixOnce ==
    /\ IsNone(fn_out)
    /\ fn_out' = Some(RemovePrefix(fn_in))
    /\ UNCHANGED <<readme, runVars, outcome, fn_in, fn_again>>

PrefixAgain ==
    /\ ~IsNone(fn_out)
    /\ IsNone(fn_again)
    /\ fn_again' = Some(RemovePrefix(fn_out.some))
    /\ UNCHANGED <<readme, runVars, outcome, fn_in, fn_out>>

NextPrefix == PrefixOnce \/ PrefixAgain

SpecPrefix == InitPrefix /\ [][NextPrefix]_vars

(***************************************************************************)
(* Properties                                                              *)
(***************************************************************************)

\* The outcomes of a GET that the claims call failures.
IsTransportFailure(o) == "error" \in DOMAIN o

NotAJsonObject(o) == ~IsTransportFailure(o) /\ o.body.json # "object"

\* The 'items' field of an outcome's JSON object, [] when it has none.
ItemsOf(o) == Get(o.body.keys.items, <<>>)

FetchReturned == net = <<"feed">> /\ ~IsNone(outcome)

\* C1 as claimed: fetch_flickr_photos never raises; on a network failure, a
\* timeout, a status outside 2xx, or a body that is not a JSON object it
\* returns []; otherwise it returns the 'items' field, [] when absent.
C1_AsClaimed ==
    FetchReturned =>
        LET o == outcome.some
        IN  /\ raised = "no"
            /\ IF \/ IsTransportFailure(o)
                  \/ o.status \notin 200..299
                  \/ NotAJsonObject(o)
               THEN photos = <<>>
               ELSE photos = ItemsOf(o)

\* C1 amended: fetch_flickr_photos never raises; on a network failure, a
\* timeout, a 4xx or 5xx status (the statuses raise_for_status raises on), or
\* a body that is not a JSON object it returns []; on every other outcome,
\* a final 3xx status included, it returns the 'items' field of the body, []
\* when absent.
C1_FetchNeverRaises ==
    FetchReturned =>
        LET o == outcome.some
        IN  /\ raised = "no"
            /\ IF \/ IsTransportFailure(o)
                  \/ o.status \in 400..599
                  \/ NotAJsonObject(o)
               THEN photos = <<>>
               ELSE photos = ItemsOf(o)

\* C1 witness: the fetch has returned [] for a 200 response whose body is a
\* JSON list, the failure that is not one of requests' own exceptions.
C1_Witness ==
    /\ FetchReturned
    /\ outcome.some = [status |-> 200, body |-> [json |-> "array"]]
    /\ photos = <<>>
    /\ raised = "no"

\* C2 as claimed: when README.md is missing, or present but not readable at
\* the pre-write check, update_readme returns False without raising and the
\* file is left as it was; no file-access error leaves the run.
C2_AsClaimed ==
    (fileops # <<>> /\ readme.access \in {"missing", "unreadable", "undecodable"}) =>
        /\ updated = "False"
        /\ raised = "no"
        /\ fileops = <<"read">>

\* The run that a step ends took the random-selection path and its feed
\* fetch yielded no item.
EmptyFeedRun == net = <<"feed">> /\ photos = <<>>

\* C3: a run on the random-selection path whose feed fetch yields no item
\* (items=[] or a failed fetch) leaves README.md as it was: update_readme is
\* not called and the file is neither read nor written.
C3_EmptyFeedLeavesFile ==
    [][EmptyFeedRun' =>
           /\ readme' = readme
           /\ updated' = "not called"
           /\ fileops' = <<>>
           /\ raised' = "no"]_vars

\* C3 witness: such a run has ended on a README.md that an earlier run wrote.
C3_Witness ==
    /\ EmptyFeedRun
    /\ script # "none"
    /\ ~IsNone(lastWrite)
    /\ readme.content # InitialContent

\* FLICKR_USER_ID is absent or empty in an environment.
NoUserId(e) == IsNone(e.FLICKR_USER_ID) \/ e.FLICKR_USER_ID.some = <<>>

\* C4: with FLICKR_USER_ID absent or empty, main returns normally without
\* any GET (feed or oEmbed, whatever FLICKR_IMAGE_ID is) and without reading
\* or writing README.md.
C4_NoUserNoEffect ==
    [][(~IsNone(environ') /\ NoUserId(environ'.some)) =>
           /\ net' = <<>>
           /\ fileops' = <<>>
           /\ updated' = "not called"
           /\ raised' = "no"
           /\ readme' = readme]_vars

\* C4 witness: source-and-update-photo.py has run with no user identifier
\* but with a photo identifier set.
C4_Witness ==
    /\ script = "source"
    /\ ~IsNone(environ)
    /\ NoUserId(environ.some)
    /\ environ.some.FLICKR_IMAGE_ID = Some(<<"7">>)
    /\ net = <<>>

\* The contents README.md starts with.
ContentAtStart == IF readme.access = "missing" THEN <<>> ELSE InitialContent

\* C5: README.md holds its initial contents while no run has written it, and
\* afterwards exactly the template rendered from the photo of the last run
\* that wrote it: nothing of the text read before the write, and nothing of
\* an earlier run's photo.
C5_FullOverwrite ==
    readme.content = IF IsNone(lastWrite) THEN ContentAtStart
                     ELSE photo_section(lastWrite.some.script,
                                        lastWrite.some.photo_info)

\* C5 witness: a run has written README.md, whose old text is gone.
C5_Witness ==
    /\ updated = "True"
    /\ ~IsNone(lastWrite)
    /\ ~Contains(readme.content, InitialContent)

JaneImageLink ==
    <<"[", "!", "[", "T", "]", "(", "a", "_", "b", ".", "j", "p", "g", ")", "]",
      "(", "L", ")">>

JaneCaption == <<"*", "*", "[", "T", "]", "(", "L", ")", "*", "*">>

JaneQuote == <<"\n", ">", " ", "N", "i", "c", "e", "!", "\n">>

QuoteMark == <<"\n", ">", " ">>

\* source-and-update-photo.py has just written README.md from a feed item.
SourceWroteItem == script = "source" /\ updated = "True" /\ ~IsNone(photo)

\* C6: when source-and-update-photo.py writes README.md from a feed item, the
\* description it writes is the item's description HTML-stripped, then freed
\* of the boilerplate prefix, then truncated; the block-quoted line is there
\* exactly when that description is not empty; and for the item
\* {media:{m:"a_m.jpg"}, title:"T", link:"L", description:"Jane posted a
\* photo: <b>Nice!</b>"} the document holds the image URL a_b.jpg, the title
\* T, the link L and the line "> Nice!".
C6_EndToEnd ==
    SourceWroteItem =>
        LET raw  == Get(photo.some.description, <<>>)
            c    == RemovePrefix(strip_html_tags(raw))
            want == IF Len(c) > 500 THEN SubSeq(c, 1, 497) \o <<".", ".", ".">>
                    ELSE c
            d    == photo_info.some.description
        IN  /\ d = want
            /\ IF d # <<>>
               THEN Contains(readme.content, QuoteMark \o d \o NL)
               ELSE ~Contains(readme.content, QuoteMark)
            /\ photo.some = JaneItem =>
                   /\ Contains(readme.content, JaneImageLink)
                   /\ Contains(readme.content, JaneCaption)
                   /\ Contains(readme.content, JaneQuote)

\* C6 witness: the document has been written from the item of the scenario.
C6_Witness == SourceWroteItem /\ photo.some = JaneItem

\* get_random_photo of source-and-update-photo.py has normalized a record.
SourceNormalized == script = "source" /\ ~IsNone(photo) /\ ~IsNone(photo_info)

\* C7: a cleaned description (HTML-stripped, prefix removed) longer than 500
\* characters comes out with length exactly 500, its first 497 characters
\* followed by "..."; one of at most 500 characters, exactly 500 included,
\* comes out unchanged; so no description exceeds 500 characters.
C7_Truncation ==
    SourceNormalized =>
        LET c == RemovePrefix(strip_html_tags(Get(photo.some.description, <<>>)))
            d == photo_info.some.description
        IN  /\ Len(c) > 500 =>
                   /\ Len(d) = 500
                   /\ SubSeq(d, 1, 497) = SubSeq(c, 1, 497)
                   /\ SubSeq(d, 498, 500) = <<".", ".", ".">>
            /\ Len(c) <= 500 => d = c
            /\ Len(d) <= 500

\* C7 witness: a description of more than 500 cleaned characters has been
\* cut to 500.
C7_Witness ==
    /\ SourceNormalized
    /\ Len(RemovePrefix(strip_html_tags(Get(photo.some.description, <<>>)))) > 500
    /\ Len(photo_info.some.description) = 500

\* The positions where a description's boilerplate phrase starts such that
\* the text before it is "X" then whitespace: X not empty and on one line.
PrefixEnds(d) ==
    {p \in 3..Len(d) :
        /\ StartsWithAt(d, PostedAPhoto, p)
        /\ \E k \in 1..(p - 2) :
              /\ \A m \in 1..k : d[m] # "\n"
              /\ \A m \in (k + 1)..(p - 1) : d[m] \in Whitespace}

\* d without its first "X posted a photo:" and the whitespace after it.
WithoutFirstPrefix(d) ==
    LET after == Min(PrefixEnds(d)) + Len(PostedAPhoto)
        rest  == {k \in after..Len(d) : d[k] \notin Whitespace}
    IN  IF rest = {} THEN <<>> ELSE From(d, Min(rest))

\* The places where the literal "posted a photo:" occurs in d.
PhraseOccurrences(d) == {k \in 1..Len(d) : StartsWithAt(d, PostedAPhoto, k)}

\* C8 as claimed: a description with an "X posted a photo:" prefix loses it,
\* one without is unchanged, and removing the prefix from the result again
\* changes nothing, for every description.
C8_AsClaimed ==
    /\ ~IsNone(fn_out) =>
           fn_out.some = IF PrefixEnds(fn_in) # {} THEN WithoutFirstPrefix(fn_in)
                         ELSE fn_in
    /\ ~IsNone(fn_again) => fn_again = fn_out

\* C8 amended: a description with an "X posted a photo:" prefix (X not empty
\* and on one line) loses its first such prefix, one without is unchanged,
\* and removing the prefix from the result again changes nothing for every
\* description in which "posted a photo:" occurs at most once; a description
\* with a second prefix behind the first loses that one on the second pass.
C8_PrefixRemoval ==
    /\ ~IsNone(fn_out) =>
           fn_out.some = IF PrefixEnds(fn_in) # {} THEN WithoutFirstPrefix(fn_in)
                         ELSE fn_in
    /\ (~IsNone(fn_again) /\ Cardinality(PhraseOccurrences(fn_in)) <= 1) =>
           fn_again = fn_out

\* C8 witness: a prefix has been removed and the removal applied again.
C8_Witness ==
    /\ ~IsNone(fn_again)
    /\ PrefixEnds(fn_in) # {}
    /\ Cardinality(PhraseOccurrences(fn_in)) = 1
    /\ fn_out.some # fn_in
    /\ fn_out.some # <<>>

\* A string without '<' and '&': nothing the parser takes for markup or for
\* a character reference.
PlainText(str) == \A k \in 1..Len(str) : str[k] \notin {"<", "&"}

\* C9 as claimed: strip_html_tags(strip_html_tags(s)) = strip_html_tags(s)
\* for every s, character references included.
C9_AsClaimed == ~IsNone(fn_again) => fn_again = fn_out

\* C9 amended: stripping plain text (no '<', no '&') returns it without its
\* surrounding whitespace, and stripping any result that is plain text
\* returns it unchanged; a result that holds '<' or '&' (decoded from
\* references such as "&lt;b&gt;") can lose more on a second pass.
C9_IdempotentOnPlainText ==
    /\ (~IsNone(fn_out) /\ PlainText(fn_in)) => fn_out.some = Strip(fn_in)
    /\ (~IsNone(fn_again) /\ PlainText(fn_out.some)) => fn_again = fn_out

\* C9 witness: markup has been stripped to plain text and that text stripped
\* again.
C9_Witness ==
    /\ ~IsNone(fn_again)
    /\ ~PlainText(fn_in)
    /\ PlainText(fn_out.some)
    /\ fn_out.some # <<>>

\* photo.get("media", {}).get("m", ""): the source URL of a record.
MediaUrl(record) ==
    IF IsNone(record.media) THEN <<>> ELSE Get(record.media.some.m, <<>>)

\* C10: whatever record get_random_photo (of either script) draws from a
\* list that is not empty, the image URL is the media URL with the 'm' of
\* every "_m.jpg" turned into 'b' and nothing else changed; it holds no
\* "_m.jpg"; a media URL without the marker is passed through.
C10_Upsizing ==
    (~IsNone(photo) /\ ~IsNone(photo_info)) =>
        LET src == MediaUrl(photo.some)
            url == photo_info.some.url
        IN  /\ Len(url) = Len(src)
            /\ \A k \in 1..Len(src) :
                  url[k] = IF StartsWithAt(src, SmallMarker, k - 1) THEN "b"
                           ELSE src[k]
            /\ ~Contains(url, SmallMarker)
            /\ ~Contains(src, SmallMarker) => url = src

\* C10 witness: a URL with the marker twice has been upsized.
C10_Witness ==
    /\ ~IsNone(photo)
    /\ ~IsNone(photo_info)
    /\ MediaUrl(photo.some) = SmallMarker \o SmallMarker
    /\ photo_info.some.url = LargeMarker \o LargeMarker
=============================================================================
